---- MODULE Spec2Model ----
(***************************************************************************)
(* Model of streamlit_app1.py: the SHA-256 file-integrity reporting tool.  *)
(*                                                                         *)
(* One run of the Streamlit script main() is modelled as a state machine.  *)
(* The uploads (mode, files, baseline CSV) are fixed by Init; the actions  *)
(* are the steps of main(), of the loop of compute_checksums() and of      *)
(* compare_checksums().  Data frames are modelled as a sequence of column  *)
(* labels and a sequence of rows; every cell value is a string, with NaN   *)
(* the null marker of pandas and "#n" the number n.                        *)
(***************************************************************************)
EXTENDS Integers, Sequences, FiniteSets, TLC

VARIABLES mode, files, baseline_file, new_files, pc, records, idx, reads,
          df, baseline_df, new_df, comparison_df, message, displayed, download

vars == <<mode, files, baseline_file, new_files, pc, records, idx, reads,
          df, baseline_df, new_df, comparison_df, message, displayed, download>>

(***************************************************************************)
(* Bounds of the model.                                                    *)
(***************************************************************************)
MaxFiles == 2
MaxRows == 2

(***************************************************************************)
(* Uploaded files: a name and a byte content.                              *)
(***************************************************************************)
Names == {"a.txt", "NA", "007"}
Contents == {"", "x"}

\* hashlib.sha256(data).hexdigest() on the modelled contents
sha256(data) ==
    CASE data = ""  -> "e3b0c44298fc1c149afbf4c8996fb92427ae41e4649b934ca495991b7852b855"
      [] data = "x" -> "2d711642b726b04401627ca9fbac32f5c8530fb1903cc4db02258717921a4881"
      [] OTHER      -> "a1fce4363854ff888cff4b8e7875d600c2682390412a8cf79b37d0b11148b0fa"

Digests == {sha256(c) : c \in Contents}

\* the uploads the model draws from: the plain name with either content, the
\* other names with one content
UploadedFile ==
    {f \in [name : Names, content : Contents] : f.name = "a.txt" \/ f.content = "x"}

SeqUpTo(S, n) == UNION {[1..k -> S] : k \in 0..n}

(***************************************************************************)
(* Data frames.                                                            *)
(***************************************************************************)
NaN == "<NaN>"
NoFrame == [columns |-> <<"<none>">>, rows |-> <<>>]

\* position of a column label in a sequence of labels (0 when absent)
ColIndex(columns, label) ==
    IF \E k \in 1..Len(columns) : columns[k] = label
    THEN CHOOSE k \in 1..Len(columns) :
             columns[k] = label /\ \A j \in 1..(k - 1) : columns[j] # label
    ELSE 0

Cell(frame, r, label) == frame.rows[r][ColIndex(frame.columns, label)]

\* pd.DataFrame(records): a list of dicts; an empty list gives a frame
\* without any column
DataFrame(recs) ==
    IF recs = <<>>
    THEN [columns |-> <<>>, rows |-> <<>>]
    ELSE [columns |-> <<"filename", "sha256">>,
          rows |-> [k \in 1..Len(recs) |-> <<recs[k].filename, recs[k].sha256>>]]

\* frame[[l1, l2, ...]]: column selection
Select(frame, labels) ==
    [columns |-> labels,
     rows |-> [r \in 1..Len(frame.rows) |->
                 [k \in 1..Len(labels) |-> Cell(frame, r, labels[k])]]]

(***************************************************************************)
(* CSV text.  A CSV file is a header (sequence of column labels) and data  *)
(* rows (sequences of cell texts, one per label); parses = FALSE is a file *)
(* read_csv cannot decode; present = FALSE is an empty upload widget.      *)
(***************************************************************************)
NoUpload == [present |-> FALSE, parses |-> FALSE, header |-> <<>>, rows |-> <<>>]
Garbage == [present |-> TRUE, parses |-> FALSE, header |-> <<>>, rows |-> <<>>]
CsvFile(header, rows) ==
    [present |-> TRUE, parses |-> TRUE, header |-> header, rows |-> rows]

\* the texts pandas.read_csv reads as a missing value (its default na_values)
STR_NA_VALUES ==
    {"", "#N/A", "#N/A N/A", "#NA", "-1.#IND", "-1.#QNAN", "-NaN", "-nan",
     "1.#IND", "1.#QNAN", "<NA>", "N/A", "NA", "NULL", "NaN", "None", "n/a",
     "nan", "null"}

\* the modelled cell texts that parse as a number, and the number they give
NumericTexts == {"007", "12"}
ToNumber(text) == IF text = "007" THEN "#7" ELSE "#12"
Numbers == {ToNumber(t) : t \in NumericTexts}
\* str() of a number, as to_csv writes it
NumberText(v) == IF v = "#7" THEN "7" ELSE "12"

\* read_csv infers the type of a column from all of its cells: a column whose
\* cells are all numbers or missing becomes numeric, otherwise it keeps the
\* texts; a missing-value text becomes NaN in both cases
ColumnIsNumeric(rows, k) ==
    /\ rows # <<>>
    /\ \A r \in 1..Len(rows) : rows[r][k] \in NumericTexts \cup STR_NA_VALUES

ParseCell(rows, r, k) ==
    LET text == rows[r][k] IN
    IF text \in STR_NA_VALUES THEN NaN
    ELSE IF ColumnIsNumeric(rows, k) THEN ToNumber(text)
    ELSE text

\* pd.read_csv(file) of a file that parses
read_csv(file) ==
    [columns |-> file.header,
     rows |-> [r \in 1..Len(file.rows) |->
                 [k \in 1..Len(file.header) |-> ParseCell(file.rows, r, k)]]]

\* df.to_csv(index=False): NaN is written as the empty text
CellText(v) ==
    IF v = NaN THEN "" ELSE IF v \in Numbers THEN NumberText(v) ELSE v

to_csv(frame) ==
    CsvFile(frame.columns,
            [r \in 1..Len(frame.rows) |->
               [k \in 1..Len(frame.columns) |-> CellText(frame.rows[r][k])]])

(***************************************************************************)
(* compare_checksums: outer merge on filename, then one status per row.    *)
(***************************************************************************)
\* the key column of a frame has a numeric dtype
KeyIsNumeric(frame) ==
    /\ frame.rows # <<>>
    /\ \A r \in 1..Len(frame.rows) : Cell(frame, r, "filename") \in Numbers \cup {NaN}

\* pd.merge raises KeyError when a frame has no filename column, and
\* ValueError when it is to join a numeric key column with one of strings
MergeRaises(left, right) ==
    \/ ColIndex(left.columns, "filename") = 0
    \/ ColIndex(right.columns, "filename") = 0
    \/ /\ left.rows # <<>>
       /\ right.rows # <<>>
       /\ KeyIsNumeric(left) # KeyIsNumeric(right)

\* the keys of the outer join in the order pd.merge emits them (sorted)
KeyOrder == <<"#7", "007", "NA", "a.txt", NaN>>

KeysOf(frame) == {Cell(frame, r, "filename") : r \in 1..Len(frame.rows)}

\* the rows of a frame that carry key k, in frame order
RECURSIVE RowsWithKey(_, _, _)
RowsWithKey(frame, k, from) ==
    IF from > Len(frame.rows) THEN <<>>
    ELSE IF Cell(frame, from, "filename") = k
         THEN <<from>> \o RowsWithKey(frame, k, from + 1)
         ELSE RowsWithKey(frame, k, from + 1)

RECURSIVE Flatten(_)
Flatten(ss) == IF ss = <<>> THEN <<>> ELSE Head(ss) \o Flatten(Tail(ss))

\* the merged rows <<filename, sha256_baseline, sha256_new>> for one key:
\* the product of the left rows and the right rows with that key; NaN fills
\* the side that has no row
MergedForKey(left, right, k) ==
    LET ls == RowsWithKey(left, k, 1)
        rs == RowsWithKey(right, k, 1)
    IN  IF ls = <<>> /\ rs = <<>> THEN <<>>
        ELSE IF ls = <<>>
             THEN [j \in 1..Len(rs) |-> <<k, NaN, Cell(right, rs[j], "sha256")>>]
        ELSE IF rs = <<>>
             THEN [j \in 1..Len(ls) |-> <<k, Cell(left, ls[j], "sha256"), NaN>>]
        ELSE Flatten([a \in 1..Len(ls) |->
                        [b \in 1..Len(rs) |->
                           <<k, Cell(left, ls[a], "sha256"),
                                Cell(right, rs[b], "sha256")>>]])

\* pd.merge(baseline_df, new_df, on="filename", how="outer",
\*          suffixes=("_baseline", "_new"))
merge(left, right) ==
    [columns |-> <<"filename", "sha256_baseline", "sha256_new">>,
     rows |-> Flatten([n \in 1..Len(KeyOrder) |->
                         MergedForKey(left, right, KeyOrder[n])])]

isna(v) == v = NaN

\* RowStatus with the two absence tests in the other order of outcome
RowStatusSwapped(baseline_hash, new_hash) ==
    IF isna(baseline_hash) THEN "missing"
    ELSE IF isna(new_hash) THEN "new"
    ELSE IF baseline_hash = new_hash THEN "unchanged"
    ELSE "modified"

\* the status of one merged row
RowStatus(baseline_hash, new_hash) ==
    IF isna(baseline_hash) THEN "new"
    ELSE IF isna(new_hash) THEN "missing"
    ELSE IF baseline_hash = new_hash THEN "unchanged"
    ELSE "modified"

compare_checksums(b_df, n_df) ==
    LET merged == merge(b_df, n_df) IN
    [columns |-> <<"filename", "sha256_baseline", "sha256_new", "status">>,
     rows |-> [r \in 1..Len(merged.rows) |->
                 Append(merged.rows[r],
                        RowStatus(Cell(merged, r, "sha256_baseline"),
                                  Cell(merged, r, "sha256_new")))]]

(***************************************************************************)
(* The uploads of one run.                                                 *)
(***************************************************************************)
Headers ==
    {<<"filename", "sha256">>, <<"filename", "sha256", "size">>,
     <<"filename", "size">>, <<"name", "sha256">>, <<"sha256">>}

\* the texts a cell of an uploaded baseline may hold, per column
CellTexts(label) ==
    IF label \in {"filename", "name"} THEN Names
    ELSE IF label = "sha256" THEN Digests \cup {""}
    ELSE {"12"}

\* the data rows the model draws from: any cell text of the column, except
\* that a row naming "NA" or "007" carries the digest of "x" when it has one
CsvRows(header) ==
    {row \in [1..Len(header) -> Names \cup Digests \cup {"", "12"}] :
        /\ \A k \in 1..Len(header) : row[k] \in CellTexts(header[k])
        /\ (header[1] = "filename" /\ header[2] = "sha256" /\ row[1] # "a.txt")
              => row[2] = sha256("x")}

BaselineUploads ==
    {NoUpload, Garbage} \cup
    UNION {{CsvFile(h, rows) : rows \in SeqUpTo(CsvRows(h), MaxRows)} : h \in Headers}

NoDownload == [file_name |-> "", data |-> NoUpload]

Init ==
    /\ mode \in {"Generate Baseline", "Compare With Baseline"}
    /\ IF mode = "Generate Baseline"
       THEN /\ files \in SeqUpTo(UploadedFile, MaxFiles)
            /\ baseline_file = NoUpload
            /\ new_files = <<>>
       ELSE /\ files = <<>>
            /\ baseline_file \in BaselineUploads
            /\ new_files \in SeqUpTo(UploadedFile, MaxFiles)
    /\ pc = "start"
    /\ records = <<>>
    /\ idx = 1
    /\ reads = 0
    /\ df = NoFrame
    /\ baseline_df = NoFrame
    /\ new_df = NoFrame
    /\ comparison_df = NoFrame
    /\ message = "none"
    /\ displayed = NoFrame
    /\ download = NoDownload

(***************************************************************************)
(* main(), Generate Baseline mode.                                         *)
(***************************************************************************)
\* if files: ... compute_checksums(files)
GenerateStart ==
    /\ pc = "start"
    /\ mode = "Generate Baseline"
    /\ files # <<>>
    /\ pc' = "gen_hash"
    /\ records' = <<>>
    /\ idx' = 1
    /\ UNCHANGED <<mode, files, baseline_file, new_files, reads, df, baseline_df,
                   new_df, comparison_df, message, displayed, download>>

\* else: st.info(...)
GenerateNothing ==
    /\ pc = "start"
    /\ mode = "Generate Baseline"
    /\ files = <<>>
    /\ message' = "info"
    /\ pc' = "done"
    /\ UNCHANGED <<mode, files, baseline_file, new_files, records, idx, reads, df,
                   baseline_df, new_df, comparison_df, displayed, download>>

(***************************************************************************)
(* compute_checksums(files): one iteration of the loop per step.           *)
(***************************************************************************)
Hashing == pc \in {"gen_hash", "cmp_hash"}
HashInput == IF pc = "gen_hash" THEN files ELSE new_files

\* the record the loop body appends for one file
Record(uploaded_file) ==
    [filename |-> uploaded_file.name, sha256 |-> sha256(uploaded_file.content)]

\* uploaded_file.read() returns the content: hash it and append the record
HashFile ==
    /\ Hashing
    /\ idx <= Len(HashInput)
    /\ records' = Append(records, Record(HashInput[idx]))
    /\ idx' = idx + 1
    /\ reads' = reads + 1
    /\ UNCHANGED <<mode, files, baseline_file, new_files, pc, df, baseline_df,
                   new_df, comparison_df, message, displayed, download>>

\* uploaded_file.read() raises: nothing catches it, the run ends there
ReadFails ==
    /\ Hashing
    /\ idx <= Len(HashInput)
    /\ reads' = reads + 1
    /\ message' = "exception_read"
    /\ pc' = "crashed"
    /\ UNCHANGED <<mode, files, baseline_file, new_files, records, idx, df,
                   baseline_df, new_df, comparison_df, displayed, download>>

\* df = pd.DataFrame(records); return df
HashDone ==
    /\ Hashing
    /\ idx > Len(HashInput)
    /\ IF pc = "gen_hash"
       THEN /\ df' = DataFrame(records)
            /\ pc' = "gen_show"
            /\ UNCHANGED new_df
       ELSE /\ new_df' = DataFrame(records)
            /\ pc' = "cmp_compare"
            /\ UNCHANGED df
    /\ UNCHANGED <<mode, files, baseline_file, new_files, records, idx, reads,
                   baseline_df, comparison_df, message, displayed, download>>

\* st.dataframe(df); st.download_button(data=df.to_csv(index=False), ...)
GenerateShow ==
    /\ pc = "gen_show"
    /\ displayed' = df
    /\ download' = [file_name |-> "baseline_checksums.csv", data |-> to_csv(df)]
    /\ pc' = "done"
    /\ UNCHANGED <<mode, files, baseline_file, new_files, records, idx, reads, df,
                   baseline_df, new_df, comparison_df, message>>

(***************************************************************************)
(* main(), Compare With Baseline mode.                                     *)
(***************************************************************************)
\* if baseline_file and new_files:
CompareStart ==
    /\ pc = "start"
    /\ mode = "Compare With Baseline"
    /\ baseline_file.present
    /\ new_files # <<>>
    /\ pc' = "cmp_parse"
    /\ UNCHANGED <<mode, files, baseline_file, new_files, records, idx, reads, df,
                   baseline_df, new_df, comparison_df, message, displayed, download>>

\* else: st.info(...)
CompareNothing ==
    /\ pc = "start"
    /\ mode = "Compare With Baseline"
    /\ ~(baseline_file.present /\ new_files # <<>>)
    /\ message' = "info"
    /\ pc' = "done"
    /\ UNCHANGED <<mode, files, baseline_file, new_files, records, idx, reads, df,
                   baseline_df, new_df, comparison_df, displayed, download>>

\* baseline_df = pd.read_csv(baseline_file)
ParseBaseline ==
    /\ pc = "cmp_parse"
    /\ baseline_file.parses
    /\ baseline_df' = read_csv(baseline_file)
    /\ pc' = "cmp_check"
    /\ UNCHANGED <<mode, files, baseline_file, new_files, records, idx, reads, df,
                   new_df, comparison_df, message, displayed, download>>

\* ParseFails without its return: the error is shown and the run goes on to
\* hash the current files
ParseFailsNoReturn ==
    /\ pc = "cmp_parse"
    /\ ~baseline_file.parses
    /\ message' = "error_read"
    /\ pc' = "cmp_hash"
    /\ records' = <<>>
    /\ idx' = 1
    /\ UNCHANGED <<mode, files, baseline_file, new_files, reads, df, baseline_df,
                   new_df, comparison_df, displayed, download>>

\* except Exception as e: st.error(...); return
ParseFails ==
    /\ pc = "cmp_parse"
    /\ ~baseline_file.parses
    /\ message' = "error_read"
    /\ pc' = "done"
    /\ UNCHANGED <<mode, files, baseline_file, new_files, records, idx, reads, df,
                   baseline_df, new_df, comparison_df, displayed, download>>

\* {"filename", "sha256"}.issubset(baseline_df.columns)
HasExpectedColumns(frame) ==
    /\ ColIndex(frame.columns, "filename") # 0
    /\ ColIndex(frame.columns, "sha256") # 0

\* baseline_df = baseline_df[["filename", "sha256"]]; compute_checksums(new_files)
ColumnsOk ==
    /\ pc = "cmp_check"
    /\ HasExpectedColumns(baseline_df)
    /\ baseline_df' = Select(baseline_df, <<"filename", "sha256">>)
    /\ pc' = "cmp_hash"
    /\ records' = <<>>
    /\ idx' = 1
    /\ UNCHANGED <<mode, files, baseline_file, new_files, reads, df, new_df,
                   comparison_df, message, displayed, download>>

\* ColumnsMissing without its return: the error is shown and the run goes on
ColumnsMissingNoReturn ==
    /\ pc = "cmp_check"
    /\ ~HasExpectedColumns(baseline_df)
    /\ message' = "error_columns"
    /\ pc' = "cmp_hash"
    /\ records' = <<>>
    /\ idx' = 1
    /\ UNCHANGED <<mode, files, baseline_file, new_files, reads, df, baseline_df,
                   new_df, comparison_df, displayed, download>>

\* if not {...}.issubset(baseline_df.columns): st.error(...); return
ColumnsMissing ==
    /\ pc = "cmp_check"
    /\ ~HasExpectedColumns(baseline_df)
    /\ message' = "error_columns"
    /\ pc' = "done"
    /\ UNCHANGED <<mode, files, baseline_file, new_files, records, idx, reads, df,
                   baseline_df, new_df, comparison_df, displayed, download>>

\* comparison_df = compare_checksums(baseline_df, new_df)
Compare ==
    /\ pc = "cmp_compare"
    /\ ~MergeRaises(baseline_df, new_df)
    /\ comparison_df' = compare_checksums(baseline_df, new_df)
    /\ pc' = "cmp_show"
    /\ UNCHANGED <<mode, files, baseline_file, new_files, records, idx, reads, df,
                   baseline_df, new_df, message, displayed, download>>

\* pd.merge raises inside compare_checksums: nothing catches it
CompareRaises ==
    /\ pc = "cmp_compare"
    /\ MergeRaises(baseline_df, new_df)
    /\ message' = "exception_merge"
    /\ pc' = "crashed"
    /\ UNCHANGED <<mode, files, baseline_file, new_files, records, idx, reads, df,
                   baseline_df, new_df, comparison_df, displayed, download>>

\* st.dataframe(comparison_df); st.download_button(...)
CompareShow ==
    /\ pc = "cmp_show"
    /\ displayed' = comparison_df
    /\ download' = [file_name |-> "comparison_report.csv",
                    data |-> to_csv(comparison_df)]
    /\ pc' = "done"
    /\ UNCHANGED <<mode, files, baseline_file, new_files, records, idx, reads, df,
                   baseline_df, new_df, comparison_df, message>>

Next ==
    \/ GenerateStart
    \/ GenerateNothing
    \/ HashFile
    \/ ReadFails
    \/ HashDone
    \/ GenerateShow
    \/ CompareStart
    \/ CompareNothing
    \/ ParseBaseline
    \/ ParseFails
    \/ ColumnsOk
    \/ ColumnsMissing
    \/ Compare
    \/ CompareRaises
    \/ CompareShow

Spec == Init /\ [][Next]_vars

(***************************************************************************)
(* Vocabulary of the properties.                                           *)
(***************************************************************************)
Compared == comparison_df # NoFrame
Terminated == ~ENABLED Next

RowIds(frame) == 1..Len(frame.rows)
\* the digests a frame records for a name
DigestsOf(frame, n) ==
    {Cell(frame, r, "sha256") : r \in {q \in RowIds(frame) : Cell(frame, q, "filename") = n}}
\* the rows of the comparison for a name
ComparisonRows(n) ==
    {r \in RowIds(comparison_df) : Cell(comparison_df, r, "filename") = n}
ComparisonNames == {Cell(comparison_df, r, "filename") : r \in RowIds(comparison_df)}
StatusOf(r) == Cell(comparison_df, r, "status")

\* the frame compute_checksums returned in this run
Returned == IF mode = "Generate Baseline" THEN df ELSE new_df
Uploaded == IF mode = "Generate Baseline" THEN files ELSE new_files

\* the baseline as uploaded lacks a required column
LacksColumns ==
    /\ baseline_file.parses
    /\ \/ ColIndex(baseline_file.header, "filename") = 0
       \/ ColIndex(baseline_file.header, "sha256") = 0
BadBaseline == baseline_file.present /\ (~baseline_file.parses \/ LacksColumns)

(***************************************************************************)
(* C1: compare_checksums emits exactly one row per distinct filename of    *)
(* the union of the baseline names and the current names: the names of the *)
(* output are that union and the number of rows is its size.               *)
(***************************************************************************)
C1_OneRowPerName ==
    Compared =>
        /\ ComparisonNames = KeysOf(baseline_df) \cup KeysOf(new_df)
        /\ Len(comparison_df.rows) = Cardinality(KeysOf(baseline_df) \cup KeysOf(new_df))

C3_NewIffAbsent ==
    Compared =>
        \A r \in RowIds(comparison_df) :
            LET n == Cell(comparison_df, r, "filename") IN
            /\ StatusOf(r) = "new" <=> n \notin KeysOf(baseline_df)
            /\ StatusOf(r) = "missing" <=> n \notin KeysOf(new_df)

(***************************************************************************)
(* C4: the frame compute_checksums returns holds at most one record per    *)
(* file name, and the record of a name carries the digest of the last file *)
(* of that name in input order.                                            *)
(***************************************************************************)
LastWithName(fs, n) ==
    CHOOSE k \in 1..Len(fs) :
        fs[k].name = n /\ \A j \in (k + 1)..Len(fs) : fs[j].name # n

C4_LastWriteWins ==
    (Returned # NoFrame) =>
        /\ \A r1, r2 \in RowIds(Returned) :
              Cell(Returned, r1, "filename") = Cell(Returned, r2, "filename") => r1 = r2
        /\ \A r \in RowIds(Returned) :
              LET n == Cell(Returned, r, "filename") IN
              Cell(Returned, r, "sha256")
                  = sha256(Uploaded[LastWithName(Uploaded, n)].content)

(***************************************************************************)
(* C5: a read failure is confined to its entry: the run does not end       *)
(* without a returned frame, and that frame holds a record for every other *)
(* file of the sequence.                                                   *)
(***************************************************************************)
C5_ReadFailureIsolated ==
    (message = "exception_read" /\ Terminated) =>
        /\ Returned # NoFrame
        /\ Len(Returned.rows) = Len(Uploaded) - 1

C7_EmptyCurrentAllMissing ==
    (/\ mode = "Compare With Baseline"
     /\ baseline_file.present /\ ~BadBaseline
     /\ new_files = <<>>
     /\ Terminated) =>
        /\ Compared
        /\ ComparisonNames = KeysOf(Select(read_csv(baseline_file), <<"filename", "sha256">>))
        /\ \A r \in RowIds(comparison_df) :
              /\ StatusOf(r) = "missing"
              /\ Cell(comparison_df, r, "sha256_new") = NaN

(***************************************************************************)
(* C8: the report Generate Baseline offers for download, parsed back as    *)
(* Compare mode parses a baseline, is the frame it was written from: every *)
(* name and every digest is the identical string.                          *)
(***************************************************************************)
C8_RoundTrip ==
    (download.file_name = "baseline_checksums.csv") =>
        Select(read_csv(download.data), <<"filename", "sha256">>) = df

(***************************************************************************)
(* C9: comparing a frame returned by compute_checksums with itself gives   *)
(* status unchanged in every row.                                          *)
(***************************************************************************)
C9_SelfCompareUnchanged ==
    (Compared /\ baseline_df = new_df) =>
        \A r \in RowIds(comparison_df) : StatusOf(r) = "unchanged"

(***************************************************************************)
(* C10: in Compare mode the steps run in the order parse, check columns,   *)
(* hash, compare, display: a current file is read only after the baseline  *)
(* parsed and was found to hold filename and sha256; on a baseline error   *)
(* no current file is read; only the filename and sha256 columns of the    *)
(* baseline reach the comparison.                                          *)
(***************************************************************************)
C10_CompareOrder ==
    (mode = "Compare With Baseline") =>
        /\ (reads > 0 \/ pc \in {"cmp_hash", "cmp_compare", "cmp_show"}) =>
              /\ baseline_file.parses
              /\ HasExpectedColumns(read_csv(baseline_file))
              /\ baseline_df = Select(read_csv(baseline_file), <<"filename", "sha256">>)
        /\ message \in {"error_read", "error_columns"} => reads = 0 /\ records = <<>>
        /\ (new_df # NoFrame) => reads = Len(new_files)
        /\ Compared =>
              /\ new_df # NoFrame
              /\ comparison_df = compare_checksums(
                     Select(read_csv(baseline_file), <<"filename", "sha256">>), new_df)
        /\ (displayed # NoFrame) => Compared /\ displayed = comparison_df

\* a comparison shown for a baseline that carries a third column
C10_Witness ==
    /\ pc = "done"
    /\ Compared
    /\ displayed = comparison_df
    /\ Len(baseline_file.header) = 3
    /\ reads = Len(new_files)

====
